---- MODULE Spec2Model ----
(***************************************************************************)
(* Model of YouTubeURLGetterUI.py: the ScraperThread worker (handle        *)
(* resolution, playlist pagination, metadata lookup, progress, per-channel *)
(* failure isolation), the tenacity retry decorators, the window slots     *)
(* that receive the worker's queued signals, and the export of the         *)
(* accumulated rows to one file per selected channel.                      *)
(***************************************************************************)
EXTENDS Integers, Sequences, FiniteSets, TLC

VARIABLES
    threads,    \* the ScraperThread objects, in the order they were started
    events,     \* the signals posted to the window's thread, oldest first
    window,     \* the YouTubeScraperWindow
    remote,     \* what the YouTube Data API can answer in this session
    disk        \* the file system, and what the last export did to it

vars == <<threads, events, window, remote, disk>>

-----------------------------------------------------------------------------
(* Bounds of the model *)

MaxHandles == 2     \* longest channel_handles list given to a thread
MaxPages == 2       \* most playlist pages the gateway serves per channel
MaxItems == 2       \* most items on one playlist page
MaxTotal == 1       \* largest pageInfo.totalResults the gateway reports
MaxRuns == 2        \* most presses of the Run button in one session
MaxExportChannels == 2  \* most channels of the run whose result is exported
MaxExportRows == 2      \* most rows of one channel in that result
MaxSaves == 1           \* most presses of the Save button in one session

(* Program constants *)

StopAfterAttempt == 3

-----------------------------------------------------------------------------
(* Strings are sequences of one-character strings, so that strip(),        *)
(* startswith() and slicing are computed and not assumed.                  *)

Whitespace == {" "}

RECURSIVE lstrip(_)
lstrip(s) ==
    IF s # <<>> /\ Head(s) \in Whitespace THEN lstrip(Tail(s)) ELSE s

RECURSIVE rstrip(_)
rstrip(s) ==
    IF s # <<>> /\ s[Len(s)] \in Whitespace
    THEN rstrip(SubSeq(s, 1, Len(s) - 1))
    ELSE s

strip(s) == rstrip(lstrip(s))

\* channel_handle[1:] if channel_handle.startswith('@') else channel_handle
DisplayHandle(channel_handle) ==
    IF channel_handle # <<>> /\ Head(channel_handle) = "@"
    THEN Tail(channel_handle)
    ELSE channel_handle

\* int(processed_videos / total_videos * 100); for the operands the model
\* reaches (both below 12) the float quotient truncates to the floor.
Percent(processed_videos, total_videos) ==
    (processed_videos * 100) \div total_videos

-----------------------------------------------------------------------------
(* Inputs *)

HandleChoices == { <<"@", "a">>, <<"b", " ">>, <<" ">> }

RECURSIVE SeqsUpTo(_, _)
SeqsUpTo(S, n) ==
    IF n = 0 THEN { <<>> }
    ELSE LET shorter == SeqsUpTo(S, n - 1)
         IN  shorter \cup { Append(s, x) : s \in shorter, x \in S }

HandleLists == SeqsUpTo(HandleChoices, MaxHandles)

ApiKeys == { <<>>, <<"k">> }

-----------------------------------------------------------------------------
(* Signals.  Every signal is a record of the same shape.                   *)

Signal(sig, handle, title, url, n, msg) ==
    [sig |-> sig, handle |-> handle, title |-> title, url |-> url,
     n |-> n, msg |-> msg]

status_update(msg, handle) ==
    Signal("status_update", handle, <<>>, <<>>, 0, msg)
add_row(display_handle, title, url) ==
    Signal("add_row", display_handle, title, url, 0, "")
new_tab(display_handle) ==
    Signal("new_tab", display_handle, <<>>, <<>>, 0, "")
progress_update(n) == Signal("progress_update", <<>>, <<>>, <<>>, n, "")
enable_save_button(b) ==
    Signal("enable_save_button", <<>>, <<>>, <<>>, IF b THEN 1 ELSE 0, "")
error_occurred(msg, handle) ==
    Signal("error_occurred", handle, <<>>, <<>>, 0, msg)
finished == Signal("finished", <<>>, <<>>, <<>>, 0, "")

\* item['snippet']['title'] as the gateway reports it for a video id
VideoTitle(video_id) == <<"title", video_id>>
\* f"https://www.youtube.com/watch?v={video_id}"
VideoUrl(video_id) == <<"https://www.youtube.com/watch?v=", video_id>>

-----------------------------------------------------------------------------
(* The remote gateway and the tenacity decorators.                         *)
(* A script is what the remote API answers on the 1st, 2nd and 3rd attempt *)
(* of one call: "ok", "transient" (an HttpError other than 404) or         *)
(* "notfound" (an HttpError with status 404).                              *)

None == "None"
Tokens == { "t1" }

ApiScripts ==
    { <<"ok", "ok", "ok">>,
      <<"transient", "transient", "ok">>,
      <<"transient", "transient", "transient">>,
      <<"notfound", "notfound", "notfound">> }

\* call_playlist_items_api without its except clauses: the HttpError of the
\* API leaves the body as it is
PlaylistItemsBody_Reraise(raw) ==
    IF raw = "ok" THEN "return" ELSE "HttpError"

\* what the body of call_playlist_items_api does with the API's answer
PlaylistItemsBody(raw) ==
    CASE raw = "ok" -> "return"
      [] raw = "notfound" -> "ValueError"
      [] OTHER -> "Exception"

\* what the body of call_channels_api does with the API's answer
ChannelsBody(raw) == IF raw = "ok" THEN "return" ELSE "Exception"

\* what the body of call_videos_api does with the API's answer
VideosBody(raw) == IF raw = "ok" THEN "return" ELSE "Exception"

\* retry=retry_if_exception_type(HttpError)
RetryIfExceptionType(raised) == raised = "HttpError"

\* tenacity's loop over the attempts of one decorated call: raised[n] is
\* what the decorated body returns or raises on attempt n.
RECURSIVE Retrying(_, _)
Retrying(raised, n) ==
    IF raised[n] = "return" THEN [result |-> "return", attempts |-> n]
    ELSE IF ~RetryIfExceptionType(raised[n])
         THEN [result |-> raised[n], attempts |-> n]
    ELSE IF n >= StopAfterAttempt
         THEN [result |-> "RetryError", attempts |-> n]
    ELSE Retrying(raised, n + 1)

call_playlist_items_api(script) ==
    Retrying([n \in DOMAIN script |-> PlaylistItemsBody(script[n])], 1)

call_channels_api(script) ==
    Retrying([n \in DOMAIN script |-> ChannelsBody(script[n])], 1)

call_videos_api(script) ==
    Retrying([n \in DOMAIN script |-> VideosBody(script[n])], 1)

\* One remote request as the gateway sees it
Request(op, handle, pageToken, ids) ==
    [op |-> op, handle |-> handle, pageToken |-> pageToken, ids |-> ids]

\* the requests that the attempts of one decorated call send
Attempts(op, handle, pageToken, ids, attempts) ==
    [n \in 1..attempts |-> Request(op, handle, pageToken, ids)]

\* The playlistItems.list responses for a playlist of which `seen` videos
\* were listed by earlier pages: the next 0..MaxItems videos of the playlist
\* (video ids are playlist positions), a pageInfo.totalResults and possibly
\* a nextPageToken; or a response without 'items'.
PlaylistPages(seen, totals, lastPage) ==
    [hasItems : {TRUE},
     items : { [k \in 1..n |-> seen + k] : n \in remote.pageSizes },
     totalResults : totals,
     nextPageToken : IF lastPage THEN {None} ELSE remote.tokens \cup {None}]
    \cup
    [hasItems : remote.hasItems \ {TRUE}, items : { <<>> },
     totalResults : totals, nextPageToken : {None}]

NoResponse ==
    [hasItems |-> FALSE, items |-> <<>>, totalResults |-> 0,
     nextPageToken |-> None]

Reverse(seq) == [k \in DOMAIN seq |-> seq[Len(seq) + 1 - k]]

\* what videos.list can return for a list of ids: an item for every id, in
\* the order asked, or the same without the first id (a video it no longer
\* knows), or the items in another order than asked
VideosItems(video_ids) ==
    { video_ids }
    \cup (IF video_ids # <<>> /\ remote.omits
          THEN { Tail(video_ids) } ELSE {})
    \cup (IF remote.reorders THEN { Reverse(video_ids) } ELSE {})

\* what channels.list(forHandle) can answer
ResolveAnswers == { "ok", "nomatch", "transient" }

\* what channels.list(id) can carry when it answers
ChannelsPayloads == { "uploads", "noitems", "emptyitems" }

\* a remote that can answer anything the model covers
AnyRemote ==
    [scripts |-> ApiScripts,
     resolve |-> ResolveAnswers,
     channels |-> ChannelsPayloads,
     pageSizes |-> 0..MaxItems,
     totals |-> 0..MaxTotal,
     tokens |-> Tokens,
     pages |-> MaxPages,
     hasItems |-> BOOLEAN,
     omits |-> TRUE,
     reorders |-> FALSE]

\* a remote that knows some handles and not others, whose channels have one
\* video each and whose calls never fail
PlainRemote ==
    [scripts |-> { <<"ok", "ok", "ok">> },
     resolve |-> { "ok", "nomatch" },
     channels |-> { "uploads" },
     pageSizes |-> { 1 },
     totals |-> { 1 },
     tokens |-> Tokens,
     pages |-> 1,
     hasItems |-> { TRUE },
     omits |-> FALSE,
     reorders |-> FALSE]

-----------------------------------------------------------------------------
(* The file system: the files by path, and for the export in progress or   *)
(* last done the writes it attempted, in order, and the popups it showed.  *)

NoFiles == [path \in {} |-> <<>>]

NoExport ==
    [files |-> NoFiles, output_dir |-> <<>>, writes |-> <<>>,
     popups |-> <<>>, saves |-> 0]

-----------------------------------------------------------------------------
(* ScraperThread *)

\* the most recent gateway call of the channel being processed: the script
\* the remote followed, what the call returned or raised after how many
\* attempts, and the response the remote had to offer
NoCall ==
    [op |-> "", script |-> <<>>, result |-> "", attempts |-> 0,
     offered |-> NoResponse]

\* ScraperThread.__init__
ScraperThread(api_key, channel_handles) ==
    [api_key |-> api_key,
     channel_handles |-> channel_handles,
     pc |-> "start",
     i |-> 1,
     channel_handle |-> <<>>,
     total_videos |-> 0,
     processed_channels |-> {},
     processed_videos |-> 0,
     display_handle |-> <<>>,
     playlist_response |-> NoResponse,
     pages |-> 0,
     seen |-> 0,
     first_total |-> 0,
     outcomes |-> <<>>,
     lastcall |-> NoCall,
     calls |-> <<>>,
     out |-> <<>>]

LastCall(op, script, r, offered) ==
    [op |-> op, script |-> script, result |-> r.result,
     attempts |-> r.attempts, offered |-> offered]

\* self.<signal>.emit(...): the signals are recorded in emission order and
\* posted to the event queue of the window's thread.
Post(w, sigs) == [k \in 1..Len(sigs) |-> [from |-> w, s |-> sigs[k]]]

Emit(w, t, sigs) ==
    /\ threads' = [threads EXCEPT ![w] = [t EXCEPT !.out = @ \o sigs]]
    /\ events' = IF sigs = <<>> THEN events ELSE events \o Post(w, sigs)
    /\ UNCHANGED <<window, remote, disk>>

\* The record of a channel that run() has left: where it left it ("done",
\* or the step that raised), how many playlist pages it had fetched, the
\* totalResults of its first page and the rows it had emitted.
Outcome(t, stage) ==
    [handle |-> t.channel_handle, stage |-> stage, pages |-> t.pages,
     totalResults |-> t.first_total,
     rows |-> IF stage \in {"call_videos_api", "next_page", "done"}
              THEN t.processed_videos ELSE 0]

\* the ValueError handler without processed_channels.add
ExceptValueError_NotProcessed(t) ==
    [t EXCEPT !.outcomes = Append(@, Outcome(t, t.pc)),
              !.i = @ + 1, !.pc = "loop"]

\* the two per-channel handlers of run(): report, mark processed, continue
ExceptValueError(t) ==
    [t EXCEPT !.processed_channels = @ \cup {t.channel_handle},
              !.outcomes = Append(@, Outcome(t, t.pc)),
              !.i = @ + 1, !.pc = "loop"]

ExceptException(t) ==
    [t EXCEPT !.processed_channels = @ \cup {t.channel_handle},
              !.outcomes = Append(@, Outcome(t, t.pc)),
              !.i = @ + 1, !.pc = "loop"]

\* handlers that continue without error_occurred.emit
Raise_Silent(w, t, class, msg) ==
    IF class = "ValueError"
    THEN Emit(w, ExceptValueError(t), <<>>)
    ELSE Emit(w, ExceptException(t), <<>>)

\* run() without the per-channel try: the exception reaches the outer
\* handler, which reports it and ends the run
Raise_Abort(w, t, class, msg) ==
    Emit(w, [ExceptException(t) EXCEPT !.pc = "finished"],
         <<error_occurred(msg, <<>>), finished>>)

\* handlers that report the failure and report it again
Raise_Twice(w, t, class, msg) ==
    Emit(w, IF class = "ValueError"
            THEN ExceptValueError(t) ELSE ExceptException(t),
         <<error_occurred(msg, t.channel_handle),
           error_occurred(msg, t.channel_handle)>>)

\* the handler that a raised exception class reaches, with its report
Raise(w, t, class, msg) ==
    IF class = "ValueError"
    THEN Emit(w, ExceptValueError(t),
              <<error_occurred(msg, t.channel_handle)>>)
    ELSE Emit(w, ExceptException(t),
              <<error_occurred(msg, t.channel_handle)>>)

\* run() without the two input checks
RunStart_NoValidation(w) ==
    LET t == threads[w] IN
    /\ t.pc = "start"
    /\ Emit(w, [t EXCEPT !.pc = "loop"],
            <<status_update("Starting...", <<>>)>>)

\* run(): input validation
RunStart(w) ==
    LET t == threads[w] IN
    /\ t.pc = "start"
    /\ IF t.api_key = <<>>
       THEN Emit(w, [t EXCEPT !.pc = "finished"],
                 <<status_update("Starting...", <<>>),
                   error_occurred("API key is required", <<>>),
                   finished>>)
       ELSE IF t.channel_handles = <<>>
       THEN Emit(w, [t EXCEPT !.pc = "finished"],
                 <<status_update("Starting...", <<>>),
                   error_occurred("At least one channel handle is required",
                                  <<>>),
                   finished>>)
       ELSE Emit(w, [t EXCEPT !.pc = "loop"],
                 <<status_update("Starting...", <<>>)>>)

\* the loop head with the membership test made on the handle as typed
LoopHead_RawMembership(w) ==
    LET t == [threads[w] EXCEPT !.lastcall = NoCall]
        raw == IF t.i <= Len(t.channel_handles)
               THEN t.channel_handles[t.i] ELSE <<>>
        channel_handle == strip(raw)
    IN
    /\ t.pc = "loop"
    /\ IF t.i > Len(t.channel_handles)
       THEN Emit(w, [t EXCEPT !.pc = "finished"],
                 <<status_update("Complete", <<>>),
                   enable_save_button(TRUE),
                   finished>>)
       ELSE IF channel_handle = <<>> \/ raw \in t.processed_channels
       THEN Emit(w, [t EXCEPT !.i = @ + 1], <<>>)
       ELSE Emit(w, [t EXCEPT !.channel_handle = channel_handle,
                              !.pages = 0, !.seen = 0, !.first_total = 0,
                              !.pc = "get_channel_id"],
                 <<status_update("Processing", channel_handle)>>)

\* run(): head of the loop over channel_handles, and the end of the run
LoopHead(w) ==
    LET t == [threads[w] EXCEPT !.lastcall = NoCall]
        channel_handle ==
            IF t.i <= Len(t.channel_handles)
            THEN strip(t.channel_handles[t.i]) ELSE <<>>
    IN
    /\ t.pc = "loop"
    /\ IF t.i > Len(t.channel_handles)
       THEN Emit(w, [t EXCEPT !.pc = "finished"],
                 <<status_update("Complete", <<>>),
                   enable_save_button(TRUE),
                   finished>>)
       ELSE IF channel_handle = <<>>
               \/ channel_handle \in t.processed_channels
       THEN Emit(w, [t EXCEPT !.i = @ + 1], <<>>)
       ELSE Emit(w, [t EXCEPT !.channel_handle = channel_handle,
                              !.pages = 0, !.seen = 0, !.first_total = 0,
                              !.pc = "get_channel_id"],
                 <<status_update("Processing", channel_handle)>>)

\* get_channel_id: one undecorated channels.list(forHandle) request

GetChannelId(w) ==
    LET t == threads[w] IN
    /\ t.pc = "get_channel_id"
    /\ \E answer \in remote.resolve :
         LET t1 == [t EXCEPT !.calls = Append(@,
                        Request("channels.list(forHandle)", t.channel_handle,
                                None, <<>>)),
                      !.lastcall = LastCall("get_channel_id", <<answer>>,
                          [result |-> answer, attempts |-> 1], NoResponse)]
         IN  CASE answer = "ok" ->
                    Emit(w, [t1 EXCEPT !.pc = "call_channels_api"], <<>>)
               [] answer = "nomatch" ->
                    Raise(w, t1, "ValueError", "No channel found")
               [] OTHER ->
                    Raise(w, t1, "Exception", "Error fetching channel ID")

\* run(): call_channels_api and the read of the uploads playlist id
CallChannelsApi(w) ==
    LET t == threads[w] IN
    /\ t.pc = "call_channels_api"
    /\ \E script \in remote.scripts, payload \in remote.channels :
         LET r == call_channels_api(script)
             t1 == [t EXCEPT !.calls = @ \o
                        Attempts("channels.list(id)", t.channel_handle, None,
                                 <<>>, r.attempts),
                      !.lastcall = LastCall("call_channels_api", script, r,
                                            NoResponse)]
         IN  IF r.result # "return"
             THEN Raise(w, t1, r.result, "Error in channels API")
             ELSE CASE payload = "noitems" ->
                         Raise(w, t1, "ValueError",
                               "Failed to retrieve channel data")
                    [] payload = "emptyitems" ->
                         Raise(w, t1, "IndexError", "list index out of range")
                    [] OTHER ->
                         Emit(w, [t1 EXCEPT !.pc = "first_page"], <<>>)

\* if next_page_token: ... pageToken=next_page_token, else no pageToken
PageTokenSent(next_page_token) ==
    IF next_page_token # None /\ next_page_token # ""
    THEN next_page_token ELSE None

\* the first playlist page with the announcement made only for a page that
\* lists a video
FirstPage_AnnounceNonEmpty(w) ==
    LET t == threads[w] IN
    /\ t.pc = "first_page"
    /\ \E script \in remote.scripts,
          page \in PlaylistPages(0, remote.totals, remote.pages <= 1) :
         LET r == call_playlist_items_api(script)
             t1 == [t EXCEPT !.calls = @ \o
                        Attempts("playlistItems.list", t.channel_handle,
                                 PageTokenSent(None), <<>>, r.attempts),
                      !.lastcall = LastCall("call_playlist_items_api", script,
                                            r, page)]
             display_handle == DisplayHandle(t.channel_handle)
             t2 == [t1 EXCEPT !.playlist_response = page,
                              !.total_videos = @ + page.totalResults,
                              !.display_handle = display_handle,
                              !.processed_channels =
                                  @ \cup {t.channel_handle},
                              !.pages = 1,
                              !.seen = Len(page.items),
                              !.first_total = page.totalResults]
         IN  IF r.result # "return"
             THEN Raise(w, t1, r.result,
                        IF r.result = "ValueError"
                        THEN "No uploads playlist found"
                        ELSE "Error in playlistItems API")
             ELSE IF ~page.hasItems
             THEN Emit(w, ExceptValueError(t2),
                       <<error_occurred("Failed to retrieve playlist items",
                                        t.channel_handle)>>)
             ELSE Emit(w, [t2 EXCEPT !.processed_videos = 0,
                                     !.pc = "call_videos_api"],
                       IF page.items = <<>> THEN <<>>
                       ELSE <<new_tab(display_handle)>>)

\* run(): the first playlist page, the total estimate and the announcement
FirstPage(w) ==
    LET t == threads[w] IN
    /\ t.pc = "first_page"
    /\ \E script \in remote.scripts,
          page \in PlaylistPages(0, remote.totals, remote.pages <= 1) :
         LET r == call_playlist_items_api(script)
             t1 == [t EXCEPT !.calls = @ \o
                        Attempts("playlistItems.list", t.channel_handle,
                                 PageTokenSent(None), <<>>, r.attempts),
                      !.lastcall = LastCall("call_playlist_items_api", script,
                                            r, page)]
             display_handle == DisplayHandle(t.channel_handle)
             t2 == [t1 EXCEPT !.playlist_response = page,
                              !.total_videos = @ + page.totalResults,
                              !.display_handle = display_handle,
                              !.processed_channels =
                                  @ \cup {t.channel_handle},
                              !.pages = 1,
                              !.seen = Len(page.items),
                              !.first_total = page.totalResults]
         IN  IF r.result # "return"
             THEN Raise(w, t1, r.result,
                        IF r.result = "ValueError"
                        THEN "No uploads playlist found"
                        ELSE "Error in playlistItems API")
             ELSE IF ~page.hasItems
             THEN Emit(w, ExceptValueError(t2),
                       <<new_tab(display_handle),
                         error_occurred("Failed to retrieve playlist items",
                                        t.channel_handle)>>)
             ELSE Emit(w, [t2 EXCEPT !.processed_videos = 0,
                                     !.pc = "call_videos_api"],
                       <<new_tab(display_handle)>>)

\* the row loop walking videos_response['items'] from its last item
RECURSIVE AddRows_Reversed(_, _, _, _, _)
AddRows_Reversed(display_handle, items, k, processed_videos, total_videos) ==
    IF k > Len(items) THEN <<>>
    ELSE <<add_row(display_handle, VideoTitle(items[Len(items) + 1 - k]),
                   VideoUrl(items[Len(items) + 1 - k]))>>
         \o (IF total_videos > 0
             THEN <<progress_update(Percent(processed_videos + 1,
                                            total_videos))>>
             ELSE <<>>)
         \o AddRows_Reversed(display_handle, items, k + 1,
                             processed_videos + 1, total_videos)

\* run(): the loop over videos_response['items'], rows k..Len(items)
RECURSIVE AddRows(_, _, _, _, _)
AddRows(display_handle, items, k, processed_videos, total_videos) ==
    IF k > Len(items) THEN <<>>
    ELSE <<add_row(display_handle, VideoTitle(items[k]), VideoUrl(items[k]))>>
         \o (IF total_videos > 0
             THEN <<progress_update(Percent(processed_videos + 1,
                                            total_videos))>>
             ELSE <<>>)
         \o AddRows(display_handle, items, k + 1, processed_videos + 1,
                    total_videos)

\* the while loop making a row for every video id of the playlist page
CallVideosApi_RowsFromPage(w) ==
    LET t == threads[w]
        status == status_update("Processing page", t.channel_handle)
    IN
    /\ t.pc = "call_videos_api"
    /\ IF ~t.playlist_response.hasItems
       THEN Emit(w, ExceptException(t),
                 <<status, error_occurred("KeyError: 'items'",
                                          t.channel_handle)>>)
       ELSE
       LET video_ids == t.playlist_response.items IN
       \E script \in remote.scripts, hasItems \in remote.hasItems,
          items \in VideosItems(video_ids) :
         LET r == call_videos_api(script)
             t1 == [t EXCEPT !.calls = @ \o
                        Attempts("videos.list", t.channel_handle, None,
                                 video_ids, r.attempts),
                      !.lastcall = LastCall("call_videos_api", script, r,
                                            [NoResponse EXCEPT
                                               !.hasItems = hasItems,
                                               !.items = items])]
         IN  /\ hasItems \/ items = <<>>
             /\ IF r.result # "return"
                THEN /\ hasItems /\ items = video_ids
                     /\ Emit(w, ExceptException(t1),
                             <<status, error_occurred("Error in videos API",
                                                      t.channel_handle)>>)
                ELSE IF ~hasItems
                THEN Emit(w, ExceptValueError(t1),
                          <<status,
                            error_occurred("Failed to retrieve video data",
                                           t.channel_handle)>>)
                ELSE Emit(w, [t1 EXCEPT !.processed_videos = @ + Len(video_ids),
                                        !.pc = "next_page"],
                          <<status>> \o
                          AddRows(t.display_handle, video_ids, 1,
                                  t.processed_videos, t.total_videos))

\* run(): one pass of the while loop up to the pagination step
CallVideosApi(w) ==
    LET t == threads[w]
        status == status_update("Processing page", t.channel_handle)
    IN
    /\ t.pc = "call_videos_api"
    /\ IF ~t.playlist_response.hasItems
       THEN Emit(w, ExceptException(t),
                 <<status, error_occurred("KeyError: 'items'",
                                          t.channel_handle)>>)
       ELSE
       LET video_ids == t.playlist_response.items IN
       \E script \in remote.scripts, hasItems \in remote.hasItems,
          items \in VideosItems(video_ids) :
         LET r == call_videos_api(script)
             t1 == [t EXCEPT !.calls = @ \o
                        Attempts("videos.list", t.channel_handle, None,
                                 video_ids, r.attempts),
                      !.lastcall = LastCall("call_videos_api", script, r,
                                            [NoResponse EXCEPT
                                               !.hasItems = hasItems,
                                               !.items = items])]
         IN  /\ hasItems \/ items = <<>>
             /\ IF r.result # "return"
                THEN /\ hasItems /\ items = video_ids
                     /\ Emit(w, ExceptException(t1),
                             <<status, error_occurred("Error in videos API",
                                                      t.channel_handle)>>)
                ELSE IF ~hasItems
                THEN Emit(w, ExceptValueError(t1),
                          <<status,
                            error_occurred("Failed to retrieve video data",
                                           t.channel_handle)>>)
                ELSE Emit(w, [t1 EXCEPT !.processed_videos = @ + Len(items),
                                        !.pc = "next_page"],
                          <<status>> \o
                          AddRows(t.display_handle, items, 1,
                                  t.processed_videos, t.total_videos))

\* the pagination step adding the totalResults of every page fetched
NextPage_AddsTotal(w) ==
    LET t == threads[w]
        next_page == t.playlist_response.nextPageToken
        \* a request without pageToken is answered from the playlist's start
        seen == IF PageTokenSent(next_page) = None THEN 0 ELSE t.seen
    IN
    /\ t.pc = "next_page"
    /\ IF next_page = None
       THEN Emit(w, [t EXCEPT !.outcomes = Append(@, Outcome(t, "done")),
                              !.i = @ + 1, !.pc = "loop"], <<>>)
       ELSE
       \E script \in remote.scripts,
          page \in PlaylistPages(seen, {t.playlist_response.totalResults},
                                 t.pages + 1 >= remote.pages) :
         LET r == call_playlist_items_api(script)
             t1 == [t EXCEPT !.calls = @ \o
                        Attempts("playlistItems.list", t.channel_handle,
                                 PageTokenSent(next_page), <<>>, r.attempts),
                      !.lastcall = LastCall("call_playlist_items_api", script,
                                            r, page)]
         IN  IF r.result # "return"
             THEN Raise(w, t1, r.result,
                        IF r.result = "ValueError"
                        THEN "No uploads playlist found"
                        ELSE "Error in playlistItems API")
             ELSE Emit(w, [t1 EXCEPT !.playlist_response = page,
                                     !.pages = @ + 1,
                                     !.total_videos = @ + page.totalResults,
                                     !.seen = seen + Len(page.items),
                                     !.pc = "call_videos_api"], <<>>)

\* run(): the pagination step at the end of the while loop
NextPage(w) ==
    LET t == threads[w]
        next_page == t.playlist_response.nextPageToken
        \* a request without pageToken is answered from the playlist's start
        seen == IF PageTokenSent(next_page) = None THEN 0 ELSE t.seen
    IN
    /\ t.pc = "next_page"
    /\ IF next_page = None
       THEN Emit(w, [t EXCEPT !.outcomes = Append(@, Outcome(t, "done")),
                              !.i = @ + 1, !.pc = "loop"], <<>>)
       ELSE
       \E script \in remote.scripts,
          page \in PlaylistPages(seen, {t.playlist_response.totalResults},
                                 t.pages + 1 >= remote.pages) :
         LET r == call_playlist_items_api(script)
             t1 == [t EXCEPT !.calls = @ \o
                        Attempts("playlistItems.list", t.channel_handle,
                                 PageTokenSent(next_page), <<>>, r.attempts),
                      !.lastcall = LastCall("call_playlist_items_api", script,
                                            r, page)]
         IN  IF r.result # "return"
             THEN Raise(w, t1, r.result,
                        IF r.result = "ValueError"
                        THEN "No uploads playlist found"
                        ELSE "Error in playlistItems API")
             ELSE Emit(w, [t1 EXCEPT !.playlist_response = page,
                                     !.pages = @ + 1,
                                     !.seen = seen + Len(page.items),
                                     !.pc = "call_videos_api"], <<>>)

-----------------------------------------------------------------------------
(* The window *)

\* YouTubeScraperWindow.__init__
YouTubeScraperWindow(api_key, channel_text) ==
    [api_key_entry |-> api_key,
     channel_text |-> channel_text,
     run_button |-> TRUE,
     clear_button |-> TRUE,
     save_button |-> FALSE,
     progress_bar |-> [value |-> 0, visible |-> FALSE],
     status_label |-> "Idle",
     tab_widget |-> <<>>,
     tables |-> {},
     channel_list |-> <<>>,
     url_list |-> <<>>,
     export_format_combo |-> "CSV",
     scraper_thread |-> 0,
     dialogs |-> 0]

\* str.splitlines() of a text whose line separator is "\n"
RECURSIVE splitlines(_)
splitlines(text) ==
    IF text = <<>> THEN <<>>
    ELSE IF \E k \in DOMAIN text : text[k] = "\n"
    THEN LET k == CHOOSE k \in DOMAIN text :
                    /\ text[k] = "\n"
                    /\ \A j \in 1..(k - 1) : text[j] # "\n"
         IN  <<SubSeq(text, 1, k - 1)>>
             \o splitlines(SubSeq(text, k + 1, Len(text)))
    ELSE <<text>>

\* [channel_input.strip() for channel_input in lines if channel_input.strip()]
RECURSIVE StrippedNonEmpty(_)
StrippedNonEmpty(lines) ==
    IF lines = <<>> THEN <<>>
    ELSE (IF strip(Head(lines)) # <<>> THEN <<strip(Head(lines))>> ELSE <<>>)
         \o StrippedNonEmpty(Tail(lines))

\* start_scraping: the slot of the Run button, which can be clicked while
\* it is enabled and no modal popup is open
start_scraping ==
    /\ window.run_button
    /\ window.dialogs = 0
    /\ Len(threads) < MaxRuns
    /\ LET api_key == strip(window.api_key_entry)
           channel_handles ==
               StrippedNonEmpty(splitlines(window.channel_text))
       IN  /\ threads' = Append(threads,
                                ScraperThread(api_key, channel_handles))
           /\ window' = [window EXCEPT !.tab_widget = <<>>,
                                       !.tables = {},
                                       !.channel_list = <<>>,
                                       !.url_list = <<>>,
                                       !.run_button = FALSE,
                                       !.clear_button = FALSE,
                                       !.save_button = FALSE,
                                       !.progress_bar =
                                           [value |-> 0, visible |-> TRUE],
                                       !.scraper_thread = Len(threads) + 1]
    /\ UNCHANGED <<events, remote, disk>>

\* clear_inputs: the slot of the Clear Inputs button
clear_inputs ==
    /\ window.clear_button
    /\ window.dialogs = 0
    /\ window.channel_text # <<>>
    /\ window' = [window EXCEPT !.channel_text = <<>>]
    /\ UNCHANGED <<threads, events, remote, disk>>

\* create_new_tab: a new table under the handle, a new tab, a checked item
create_new_tab(win, channel_handle) ==
    [win EXCEPT !.tab_widget = Append(@, [label |-> channel_handle,
                                          rows |-> <<>>]),
                !.tables = { e \in @ : e[1] # channel_handle }
                           \cup { <<channel_handle, Len(win.tab_widget) + 1>> },
                !.channel_list = Append(@, [text |-> channel_handle,
                                            checked |-> TRUE])]

\* self.tables[channel_handle]: the tab that holds the handle's table
TableOf(win, channel_handle) ==
    CHOOSE k \in DOMAIN win.tab_widget : <<channel_handle, k>> \in win.tables

\* add_table_row
add_table_row(win, channel_handle, title, url) ==
    LET win1 == IF \E e \in win.tables : e[1] = channel_handle
                THEN win ELSE create_new_tab(win, channel_handle)
        table == TableOf(win1, channel_handle)
    IN  [win1 EXCEPT !.tab_widget[table].rows = Append(@, <<title, url>>),
                     !.url_list = Append(@, <<channel_handle, title, url>>)]

\* update_status
update_status(win, status) == [win EXCEPT !.status_label = status]

\* progress_bar.setValue: a value outside minimum..maximum changes nothing
setValue(win, value) ==
    IF value \in 0..100 THEN [win EXCEPT !.progress_bar.value = value]
    ELSE win

\* save_button.setEnabled
setEnabled(win, enabled) == [win EXCEPT !.save_button = enabled]

\* scraping_finished
scraping_finished(win) ==
    [win EXCEPT !.run_button = TRUE, !.clear_button = TRUE,
                !.progress_bar.visible = FALSE]

\* a show_error that also empties the accumulated rows
show_error_ClearsRows(win, error_message) ==
    [win EXCEPT !.dialogs = @ + 1, !.url_list = <<>>]

\* show_error up to msg_box.exec_(): a modal popup opens
show_error(win, error_message) == [win EXCEPT !.dialogs = @ + 1]

\* the slot that a posted signal is connected to, run on the window
Slot(win, s) ==
    CASE s.sig = "status_update" -> update_status(win, s.msg)
      [] s.sig = "add_row" -> add_table_row(win, s.handle, s.title, s.url)
      [] s.sig = "new_tab" -> create_new_tab(win, s.handle)
      [] s.sig = "progress_update" -> setValue(win, s.n)
      [] s.sig = "enable_save_button" -> setEnabled(win, s.n = 1)
      [] s.sig = "error_occurred" -> show_error(win, s.msg)
      [] s.sig = "finished" -> scraping_finished(win)

\* the window's event loop (also while a popup is open) takes the oldest
\* posted signal and runs its slot
Deliver ==
    /\ events # <<>>
    /\ window' = Slot(window, Head(events).s)
    /\ events' = Tail(events)
    /\ UNCHANGED <<threads, remote, disk>>

\* show_error after msg_box.exec_(): the user closes a popup
DismissError ==
    /\ window.dialogs > 0
    /\ window' = [window EXCEPT !.dialogs = @ - 1,
                                !.status_label = "Error",
                                !.progress_bar.visible = FALSE,
                                !.run_button = TRUE,
                                !.clear_button = TRUE]
    /\ UNCHANGED <<threads, events, remote, disk>>

-----------------------------------------------------------------------------
(* One scraper thread, constructed with any api key and handle list and    *)
(* started.                                                                *)

Init ==
    /\ \E api_key \in ApiKeys, channel_handles \in HandleLists :
         threads = << ScraperThread(api_key, channel_handles) >>
    /\ events = <<>>
    /\ window = YouTubeScraperWindow(<<>>, <<>>)
    /\ remote = AnyRemote
    /\ disk = NoExport

Next ==
    \/ \E w \in DOMAIN threads : RunStart(w)
    \/ \E w \in DOMAIN threads : LoopHead(w)
    \/ \E w \in DOMAIN threads : GetChannelId(w)
    \/ \E w \in DOMAIN threads : CallChannelsApi(w)
    \/ \E w \in DOMAIN threads : FirstPage(w)
    \/ \E w \in DOMAIN threads : CallVideosApi(w)
    \/ \E w \in DOMAIN threads : NextPage(w)

Spec == Init /\ [][Next]_vars

\* a started thread keeps running: every remote call returns or raises
FairSpec == Spec /\ WF_vars(Next)

-----------------------------------------------------------------------------
(* The application: the window, its user and the threads it starts, in     *)
(* front of a plain remote.                                                *)

AppKeys == { <<>>, <<"k", " ">> }

AppTexts ==
    { <<"@", "a", "\n", "b">>,
      <<"@", "a", "\n", " ", "\n", "a", " ">> }

InitApp ==
    /\ threads = <<>>
    /\ events = <<>>
    /\ \E api_key \in AppKeys, channel_text \in AppTexts :
         window = YouTubeScraperWindow(api_key, channel_text)
    /\ remote = PlainRemote
    /\ disk = NoExport

NextApp ==
    \/ start_scraping
    \/ clear_inputs
    \/ Next
    \/ Deliver
    \/ DismissError

SpecApp == InitApp /\ [][NextApp]_vars

-----------------------------------------------------------------------------
(* One scraper thread in front of a remote whose calls never fail and      *)
(* whose page responses can carry any cursor value, the empty one too.     *)

CursorRemote ==
    [AnyRemote EXCEPT !.scripts = { <<"ok", "ok", "ok">> },
                      !.resolve = { "ok" },
                      !.channels = { "uploads" },
                      !.tokens = Tokens \cup { "" }]

InitCursor ==
    /\ \E api_key \in ApiKeys, channel_handles \in HandleLists :
         threads = << ScraperThread(api_key, channel_handles) >>
    /\ events = <<>>
    /\ window = YouTubeScraperWindow(<<>>, <<>>)
    /\ remote = CursorRemote
    /\ disk = NoExport

SpecCursor == InitCursor /\ [][Next]_vars

-----------------------------------------------------------------------------
(* One scraper thread in front of a remote whose calls never fail and      *)
(* whose metadata responses can leave out a video or list the videos in    *)
(* another order than asked.                                               *)

VideosRemote ==
    [AnyRemote EXCEPT !.scripts = { <<"ok", "ok", "ok">> },
                      !.resolve = { "ok" },
                      !.channels = { "uploads" },
                      !.hasItems = { TRUE },
                      !.reorders = TRUE]

InitVideos ==
    /\ \E api_key \in ApiKeys, channel_handles \in HandleLists :
         threads = << ScraperThread(api_key, channel_handles) >>
    /\ events = <<>>
    /\ window = YouTubeScraperWindow(<<>>, <<>>)
    /\ remote = VideosRemote
    /\ disk = NoExport

SpecVideos == InitVideos /\ [][Next]_vars

-----------------------------------------------------------------------------
(* One scraper thread whose signals are delivered to the window, in front  *)
(* of a remote that resolves every handle and whose page and metadata      *)
(* calls can fail.                                                         *)

SinkRemote ==
    [AnyRemote EXCEPT !.scripts = { <<"ok", "ok", "ok">>,
                                    <<"transient", "transient", "transient">>,
                                    <<"notfound", "notfound", "notfound">> },
                      !.resolve = { "ok" },
                      !.channels = { "uploads" },
                      !.pageSizes = { 1 },
                      !.totals = { 1 },
                      !.hasItems = { TRUE },
                      !.omits = FALSE]

InitSink ==
    /\ \E api_key \in ApiKeys, channel_handles \in HandleLists :
         threads = << ScraperThread(api_key, channel_handles) >>
    /\ events = <<>>
    /\ window = YouTubeScraperWindow(<<>>, <<>>)
    /\ remote = SinkRemote
    /\ disk = NoExport

NextSink ==
    \/ Next
    \/ Deliver
    \/ DismissError

SpecSink == InitSink /\ [][NextSink]_vars

-----------------------------------------------------------------------------
(* Export: save_to_file *)

\* str.isalnum() on the characters the model's handles are made of
Alnum == { "a", "b", "k" }

\* "".join(char for char in channel_handle
\*         if char.isalnum() or char in ('-', '_'))
RECURSIVE KeepSafe(_)
KeepSafe(channel_handle) ==
    IF channel_handle = <<>> THEN <<>>
    ELSE (IF Head(channel_handle) \in Alnum \cup {"-", "_"}
          THEN <<Head(channel_handle)>> ELSE <<>>)
         \o KeepSafe(Tail(channel_handle))

safe_handle(channel_handle) == rstrip(KeepSafe(channel_handle))

\* os.path.join(output_dir, f"{safe_handle}_output.{export_format}")
file_path(output_dir, channel_handle, export_format) ==
    output_dir \o <<"/">> \o safe_handle(channel_handle)
               \o <<"_output.", export_format>>

\* export_format_combo.currentText().lower()
lower(text) == IF text = "CSV" THEN "csv" ELSE "json"

\* the texts of the checked items of the channel list, in list order
RECURSIVE selected_channels(_)
selected_channels(channel_list) ==
    IF channel_list = <<>> THEN <<>>
    ELSE (IF Head(channel_list).checked
          THEN <<Head(channel_list).text>> ELSE <<>>)
         \o selected_channels(Tail(channel_list))

InSeq(x, seq) == \E k \in DOMAIN seq : seq[k] = x

\* the grouping without the test on selected_channels
RECURSIVE channel_data_Unselected(_, _)
channel_data_Unselected(url_list, selected) ==
    IF url_list = <<>> THEN <<>>
    ELSE LET n == Len(url_list)
             before == channel_data_Unselected(SubSeq(url_list, 1, n - 1),
                                               selected)
             channel_handle == url_list[n][1]
             pair == <<url_list[n][2], url_list[n][3]>>
         IN  IF \E k \in DOMAIN before :
                  before[k].channel_handle = channel_handle
             THEN [k \in DOMAIN before |->
                     IF before[k].channel_handle = channel_handle
                     THEN [before[k] EXCEPT !.data = Append(@, pair)]
                     ELSE before[k]]
             ELSE Append(before, [channel_handle |-> channel_handle,
                                  data |-> <<pair>>])

\* channel_data: a dict, kept as the sequence of its items in insertion
\* order
RECURSIVE channel_data(_, _)
channel_data(url_list, selected) ==
    IF url_list = <<>> THEN <<>>
    ELSE LET n == Len(url_list)
             before == channel_data(SubSeq(url_list, 1, n - 1), selected)
             channel_handle == url_list[n][1]
             pair == <<url_list[n][2], url_list[n][3]>>
         IN  IF ~InSeq(channel_handle, selected) THEN before
             ELSE IF \E k \in DOMAIN before :
                       before[k].channel_handle = channel_handle
             THEN [k \in DOMAIN before |->
                     IF before[k].channel_handle = channel_handle
                     THEN [before[k] EXCEPT !.data = Append(@, pair)]
                     ELSE before[k]]
             ELSE Append(before, [channel_handle |-> channel_handle,
                                  data |-> <<pair>>])

\* pd.DataFrame(data, columns=['Title', 'Url']).to_csv(index=True): a header
\* line and one line per row, led by the row's index
to_csv(data) ==
    [format |-> "csv",
     columns |-> <<"", "Title", "Url">>,
     lines |-> [k \in DOMAIN data |-> <<k - 1, data[k][1], data[k][2]>>]]

\* json.dump([{'Title': title, 'Url': url} for title, url in data])
json_dump(data) ==
    [format |-> "json",
     columns |-> <<"Title", "Url">>,
     lines |-> [k \in DOMAIN data |-> <<data[k][1], data[k][2]>>]]

\* the loop over channel_data.items() leaving at the first write that
\* raises
Writes_StopAtFailure(items, output_dir, export_format, failing) ==
    LET last == IF failing \cap DOMAIN items = {} THEN Len(items)
                ELSE CHOOSE k \in failing \cap DOMAIN items :
                       \A j \in failing \cap DOMAIN items : k <= j
    IN  [k \in 1..last |->
           [channel_handle |-> items[k].channel_handle,
            file_path |-> file_path(output_dir, items[k].channel_handle,
                                    export_format),
            content |-> IF export_format = "csv"
                        THEN to_csv(items[k].data)
                        ELSE json_dump(items[k].data),
            ok |-> k \notin failing]]

\* the loop over channel_data.items(): the writes attempted, in order; the
\* writes at the positions in `failing` raise
Writes(items, output_dir, export_format, failing) ==
    [k \in DOMAIN items |->
       [channel_handle |-> items[k].channel_handle,
        file_path |-> file_path(output_dir, items[k].channel_handle,
                                export_format),
        content |-> IF export_format = "csv"
                    THEN to_csv(items[k].data)
                    ELSE json_dump(items[k].data),
        ok |-> k \notin failing]]

\* the files after a sequence of writes: a write that succeeds replaces
\* what its path held
RECURSIVE Written(_, _)
Written(files, writes) ==
    IF writes = <<>> THEN files
    ELSE LET wr == Head(writes)
             after == IF wr.ok
                      THEN [path \in DOMAIN files \cup {wr.file_path} |->
                              IF path = wr.file_path THEN wr.content
                              ELSE files[path]]
                      ELSE files
         IN  Written(after, Tail(writes))

Popup(title, text, path) == [title |-> title, text |-> text, path |-> path]

\* the error popups of the writes that raised, in order
RECURSIVE FailurePopups(_)
FailurePopups(writes) ==
    IF writes = <<>> THEN <<>>
    ELSE (IF Head(writes).ok THEN <<>>
          ELSE <<Popup("Error", "Failed to save", Head(writes).file_path)>>)
         \o FailurePopups(Tail(writes))

OutputDirs == { <<>>, <<"/out">> }

\* save_to_file: the slot of the Save button
save_to_file ==
    /\ window.save_button
    /\ window.dialogs = 0
    /\ disk.saves < MaxSaves
    /\ \E output_dir \in OutputDirs,
          failing \in SUBSET (1..MaxExportChannels) :
         LET selected == selected_channels(window.channel_list)
             export_format == lower(window.export_format_combo)
             items == channel_data(window.url_list, selected)
             writes == Writes(items, output_dir, export_format, failing)
             returned(popups) ==
                 /\ failing = {}
                 /\ disk' = [disk EXCEPT !.output_dir = <<>>,
                                         !.writes = <<>>,
                                         !.popups = popups,
                                         !.saves = @ + 1]
                 /\ UNCHANGED window
         IN  IF window.url_list = <<>>
             THEN returned(<<Popup("Warning", "No data to save", <<>>)>>)
             ELSE IF selected = <<>>
             THEN returned(<<Popup("Warning", "No channels selected", <<>>)>>)
             ELSE IF output_dir = <<>>
             THEN returned(<<>>)
             ELSE
             /\ failing \subseteq DOMAIN items
             /\ disk' = [files |-> Written(disk.files, writes),
                         output_dir |-> output_dir,
                         writes |-> writes,
                         popups |-> FailurePopups(writes)
                             \o (IF items # <<>>
                                 THEN <<Popup("Success",
                                              "Selected channels saved",
                                              output_dir)>>
                                 ELSE <<>>),
                         saves |-> disk.saves + 1]
             /\ window' = IF \E k \in DOMAIN writes : writes[k].ok
                          THEN [window EXCEPT !.status_label = "Saved"]
                          ELSE window
    /\ UNCHANGED <<threads, events, remote>>

\* the user checks or unchecks an item of the channel list
setCheckState ==
    /\ window.dialogs = 0
    /\ \E k \in DOMAIN window.channel_list :
         window' = [window EXCEPT !.channel_list[k].checked = ~@]
    /\ UNCHANGED <<threads, events, remote, disk>>

\* the user picks the other entry of the export format combo box
setCurrentText ==
    /\ window.dialogs = 0
    /\ \E text \in {"CSV", "JSON"} :
         /\ text # window.export_format_combo
         /\ window' = [window EXCEPT !.export_format_combo = text]
    /\ UNCHANGED <<threads, events, remote, disk>>

\* The window after a run: the display handles of the channels the run
\* announced, in order, each with the number of rows it emitted.
ExportHandles == { <<"a", "b">>, <<"a", ".", "b">>, <<"b">> }

ChannelResults ==
    SeqsUpTo([handle : ExportHandles, rows : 0..MaxExportRows],
             MaxExportChannels)

\* the signals of such a run that reach the window's tables
RECURSIVE SignalsOf(_)
SignalsOf(results) ==
    IF results = <<>>
    THEN <<status_update("Complete", <<>>), enable_save_button(TRUE),
           finished>>
    ELSE LET r == Head(results) IN
         <<new_tab(r.handle)>>
         \o [k \in 1..r.rows |->
               add_row(r.handle, VideoTitle(k), VideoUrl(k))]
         \o SignalsOf(Tail(results))

\* the window after the slots of a sequence of signals have run
RECURSIVE Delivered(_, _)
Delivered(win, sigs) ==
    IF sigs = <<>> THEN win
    ELSE Delivered(Slot(win, Head(sigs)), Tail(sigs))

InitExport ==
    /\ threads = <<>>
    /\ events = <<>>
    /\ \E results \in ChannelResults :
         window = Delivered(YouTubeScraperWindow(<<"k">>, <<>>),
                            SignalsOf(results))
    /\ remote = PlainRemote
    /\ disk = NoExport

NextExport ==
    \/ setCheckState
    \/ setCurrentText
    \/ save_to_file

SpecExport == InitExport /\ [][NextExport]_vars

-----------------------------------------------------------------------------
(* What a thread has emitted *)

IsRow(s) == s.sig = "add_row"
IsTab(s) == s.sig = "new_tab"
IsProgress(s) == s.sig = "progress_update"
IsError(s) == s.sig = "error_occurred"
IsComplete(s) == s.sig = "status_update" /\ s.msg = "Complete"
IsEnableSave(s) == s.sig = "enable_save_button"

Rows(t) == SelectSeq(t.out, IsRow)
Tabs(t) == SelectSeq(t.out, IsTab)
Progress(t) == SelectSeq(t.out, IsProgress)
Errors(t) == SelectSeq(t.out, IsError)

Count(seq, x) == Cardinality({ k \in DOMAIN seq : seq[k] = x })
Handles(seq) == [k \in DOMAIN seq |-> seq[k].handle]

\* the run passed the input validation of run()
Validated(t) == t.api_key # <<>> /\ t.channel_handles # <<>>

ResolvingStages == { "get_channel_id", "call_channels_api" }

-----------------------------------------------------------------------------
\* C1: a handle that fails at resolution gets no row and exactly one failure
\* report naming it, the run goes on to the next handle, and a finished
\* validated run has started on every non-blank handle of its list.
C1_ResolutionFailureIsolated ==
    \A w \in DOMAIN threads :
      LET t == threads[w] IN
      /\ \A k \in DOMAIN t.outcomes :
           LET o == t.outcomes[k] IN
           o.stage \in ResolvingStages =>
             /\ Count(Handles(Rows(t)), DisplayHandle(o.handle)) = 0
             /\ Count(Handles(Errors(t)), o.handle) = 1
             /\ t.pc # "finished" \/ IsComplete(t.out[Len(t.out) - 2])
      /\ t.pc = "finished" /\ Validated(t) =>
           \A k \in DOMAIN t.channel_handles :
             strip(t.channel_handles[k]) # <<>> =>
               \E j \in DOMAIN t.outcomes :
                 t.outcomes[j].handle = strip(t.channel_handles[k])

\* a run [A fails at resolution, B succeeds with rows] has finished
C1_Witness ==
    \E w \in DOMAIN threads :
      LET t == threads[w] IN
      /\ t.pc = "finished"
      /\ Len(t.outcomes) = 2
      /\ t.outcomes[1].stage \in ResolvingStages
      /\ t.outcomes[2].stage = "done"
      /\ t.outcomes[2].rows = 2
      /\ Len(Rows(t)) = 2

-----------------------------------------------------------------------------
\* C2: a playlist page fetch that the remote fails transiently on the first
\* and second attempt and answers on the third returns that answer, so the
\* channel goes on with the page a first-attempt success would have given.
C2_RetryTransparency ==
    \A w \in DOMAIN threads :
      LET t == threads[w] IN
      t.lastcall.op = "call_playlist_items_api"
      /\ t.lastcall.script = <<"transient", "transient", "ok">> =>
        /\ t.lastcall.result = "return"
        /\ t.lastcall.attempts = 3
        /\ t.playlist_response = t.lastcall.offered

-----------------------------------------------------------------------------
\* the playlistItems.list requests a thread has sent for a handle
PlaylistRequests(t, handle) ==
    { k \in DOMAIN t.calls : /\ t.calls[k].op = "playlistItems.list"
                             /\ t.calls[k].handle = handle }

\* C3: a playlist page fetch answered with HTTP 404 is attempted once: one
\* request for that page, the failure surfaces as "No uploads playlist
\* found" and fails the channel.
C3_NotFoundNotRetried ==
    \A w \in DOMAIN threads :
      LET t == threads[w] IN
      t.lastcall.op = "call_playlist_items_api"
      /\ t.lastcall.script[1] = "notfound" =>
        /\ t.lastcall.attempts = 1
        /\ t.lastcall.result = "ValueError"
        /\ Cardinality(PlaylistRequests(t, t.channel_handle)) = t.pages + 1
        /\ t.pc = "loop"
        /\ t.outcomes[Len(t.outcomes)].handle = t.channel_handle
        /\ t.outcomes[Len(t.outcomes)].stage \in {"first_page", "next_page"}
        /\ Errors(t)[Len(Errors(t))] =
             error_occurred("No uploads playlist found", t.channel_handle)

\* the second page of a channel was answered with HTTP 404
C3_Witness ==
    \E w \in DOMAIN threads :
      LET t == threads[w] IN
      /\ t.lastcall.op = "call_playlist_items_api"
      /\ t.lastcall.script[1] = "notfound"
      /\ t.pages = 1
      /\ t.pc = "loop"

-----------------------------------------------------------------------------
\* C4: the progress values a run emits never decrease.
C4_ProgressNonDecreasing ==
    \A w \in DOMAIN threads :
      LET p == Progress(threads[w]) IN
      \A j, k \in DOMAIN p : j < k => p[j].n <= p[k].n

-----------------------------------------------------------------------------
\* C5: every progress value a run emits lies in 0..100, and none is emitted
\* while the total estimate is zero.
C5_ProgressInRange ==
    \A w \in DOMAIN threads :
      LET t == threads[w] IN
      /\ \A k \in DOMAIN Progress(t) : Progress(t)[k].n \in 0..100
      /\ t.total_videos = 0 => Progress(t) = <<>>

-----------------------------------------------------------------------------
\* C6: when a run ends in which every channel either failed at resolution or
\* was enumerated to the end with a first-page total equal to the rows it
\* emitted, and a row was emitted, the last progress value emitted is 100.
C6_FinalProgressIs100 ==
    \A w \in DOMAIN threads :
      LET t == threads[w] IN
      ( /\ t.pc = "finished"
        /\ \A k \in DOMAIN t.outcomes :
             \/ t.outcomes[k].stage \in ResolvingStages
             \/ /\ t.outcomes[k].stage = "done"
                /\ t.outcomes[k].totalResults = t.outcomes[k].rows
        /\ Rows(t) # <<>> )
      => /\ Progress(t) # <<>>
         /\ Progress(t)[Len(Progress(t))].n = 100

-----------------------------------------------------------------------------
ResolutionSucceeded(o) == o.stage \notin ResolvingStages
FirstPageFetched(o) == o.pages >= 1

Displays(outcomes) ==
    [k \in DOMAIN outcomes |-> DisplayHandle(outcomes[k].handle)]

\* the first position of a normalized handle in the input list
FirstIndex(t, handle) ==
    CHOOSE k \in DOMAIN t.channel_handles :
      /\ strip(t.channel_handles[k]) = handle
      /\ \A j \in 1..(k - 1) : strip(t.channel_handles[j]) # handle

-----------------------------------------------------------------------------
\* every non-blank handle of the list has been left, done or failed
AllHandlesTerminal(t) ==
    \A k \in DOMAIN t.channel_handles :
      strip(t.channel_handles[k]) # <<>> =>
        \E j \in DOMAIN t.outcomes :
          t.outcomes[j].handle = strip(t.channel_handles[k])

CompleteAt(t) == { k \in DOMAIN t.out : IsComplete(t.out[k]) }

\* Complete is reported at most once, only after every handle is terminal,
\* with the save button enabled next; a finished validated run reported it.
C9_CompleteSafety ==
    \A w \in DOMAIN threads :
      LET t == threads[w] IN
      Validated(t) =>
        /\ Cardinality(CompleteAt(t)) <= 1
        /\ \A k \in CompleteAt(t) :
             /\ AllHandlesTerminal(t)
             /\ t.pc = "finished"
             /\ t.out[k + 1] = enable_save_button(TRUE)
        /\ t.pc = "finished" => Cardinality(CompleteAt(t)) = 1

\* C9: every run that passes input validation eventually reports Complete,
\* exactly once and after every handle is done or failed, whatever the
\* outcomes of its channels, and enables the save button with it.
C9_EventuallyCompleteOnce ==
    /\ []C9_CompleteSafety
    /\ (1 \in DOMAIN threads /\ Validated(threads[1]))
         ~> (CompleteAt(threads[1]) # {})

\* a run with a failed and a completed channel has reported Complete
C9_Witness ==
    \E w \in DOMAIN threads :
      LET t == threads[w] IN
      /\ CompleteAt(t) # {}
      /\ Rows(t) # <<>>
      /\ Errors(t) # <<>>
      /\ Len(t.outcomes) = 2

-----------------------------------------------------------------------------
\* C10: a run with an empty API key or an empty handle list makes no remote
\* call, announces no channel, emits no row, never reports Complete and
\* never enables the save button, and ends having reported one error.
C10_InvalidInputFailsRun ==
    \A w \in DOMAIN threads :
      LET t == threads[w] IN
      ~Validated(t) =>
        /\ t.calls = <<>>
        /\ Tabs(t) = <<>>
        /\ Rows(t) = <<>>
        /\ CompleteAt(t) = {}
        /\ SelectSeq(t.out, IsEnableSave) = <<>>
        /\ Len(Errors(t)) <= 1
        /\ t.pc \in {"start", "finished"}
        /\ t.pc = "finished" => Len(Errors(t)) = 1

\* a run with handles and no API key has ended
C10_Witness ==
    \E w \in DOMAIN threads :
      LET t == threads[w] IN
      /\ t.api_key = <<>>
      /\ t.channel_handles # <<>>
      /\ t.pc = "finished"

\* a run with an API key and no handles has ended
C10_WitnessNoHandles ==
    \E w \in DOMAIN threads :
      LET t == threads[w] IN
      /\ t.api_key # <<>>
      /\ t.channel_handles = <<>>
      /\ t.pc = "finished"

-----------------------------------------------------------------------------
Running == { w \in DOMAIN threads : threads[w].pc # "finished" }

\* C8: at most one run executes at a time: while a started thread has not
\* finished, no second thread is running.
C8_OneRunAtATime == Cardinality(Running) <= 1

-----------------------------------------------------------------------------
IsProcessing(s) == s.sig = "status_update" /\ s.msg = "Processing"

\* the handles of a list after strip(), without the blank ones and without
\* the later occurrences of a handle
RECURSIVE Normalized(_)
Normalized(channel_handles) ==
    IF channel_handles = <<>> THEN <<>>
    ELSE LET n == Len(channel_handles)
             before == Normalized(SubSeq(channel_handles, 1, n - 1))
             h == strip(channel_handles[n])
         IN  IF h = <<>> \/ \E k \in DOMAIN before : before[k] = h
             THEN before ELSE Append(before, h)

IsPrefix(s, t) == Len(s) <= Len(t) /\ s = SubSeq(t, 1, Len(s))

ResolveRequests(t) ==
    SelectSeq(t.calls, LAMBDA r : r.op = "channels.list(forHandle)")

\* C11: the handles a run takes up are the trimmed, non-blank, first
\* occurrences of its list, in order; a blank handle or a repeated one
\* (whether its first occurrence succeeded or failed) causes no remote call,
\* row, announcement or error report, so each normalized handle is resolved
\* at most once.
C11_NormalizedHandlesOnce ==
    \A w \in DOMAIN threads :
      LET t == threads[w]
          started == Handles(SelectSeq(t.out, IsProcessing))
      IN
      /\ IsPrefix(started, Normalized(t.channel_handles))
      /\ t.pc = "finished" /\ Validated(t) =>
           started = Normalized(t.channel_handles)
      /\ IsPrefix(Handles(ResolveRequests(t)), started)
      /\ Len(Handles(ResolveRequests(t))) >= Len(started) - 1
      /\ \A k \in DOMAIN t.calls :
           \E j \in DOMAIN started : started[j] = t.calls[k].handle
      /\ Validated(t) =>
           \A k \in DOMAIN Errors(t) :
             /\ \E j \in DOMAIN started : started[j] = Errors(t)[k].handle
             /\ Count(Handles(Errors(t)), Errors(t)[k].handle) = 1
      /\ \A k \in DOMAIN Tabs(t) :
           \E j \in DOMAIN started :
             /\ DisplayHandle(started[j]) = Tabs(t)[k].handle
             /\ Count(Handles(Tabs(t)), Tabs(t)[k].handle) = 1
      /\ \A k \in DOMAIN Rows(t) :
           \E j \in DOMAIN started :
             DisplayHandle(started[j]) = Rows(t)[k].handle

\* a finished run whose list repeats, with other whitespace around it or
\* none, a handle whose first occurrence failed at resolution
C11_Witness ==
    \E w \in DOMAIN threads :
      LET t == threads[w] IN
      /\ t.pc = "finished"
      /\ Len(t.channel_handles) = 2
      /\ t.channel_handles[1] # strip(t.channel_handles[1])
      /\ strip(t.channel_handles[1]) = strip(t.channel_handles[2])
      /\ Len(t.outcomes) = 1
      /\ t.outcomes[1].stage \in ResolvingStages
      /\ Len(ResolveRequests(t)) = 1

-----------------------------------------------------------------------------
\* C12: the rows a run has emitted contain no two rows with the same display
\* handle and the same video URL.
C12_NoDuplicateRows ==
    \A w \in DOMAIN threads :
      LET rows == Rows(threads[w]) IN
      \A j, k \in DOMAIN rows :
        j < k => ~(rows[j].handle = rows[k].handle /\ rows[j].url = rows[k].url)

-----------------------------------------------------------------------------
\* C13: two distinct normalized handles that a run has announced never have
\* the same display handle (the key of the result table and of the export
\* group).
C13_DisplayHandleIdentifiesChannel ==
    \A w \in DOMAIN threads :
      LET t == threads[w] IN
      \A j, k \in DOMAIN t.outcomes :
        ( /\ j < k
          /\ FirstPageFetched(t.outcomes[j])
          /\ FirstPageFetched(t.outcomes[k])
          /\ t.outcomes[j].handle # t.outcomes[k].handle )
        => DisplayHandle(t.outcomes[j].handle)
             # DisplayHandle(t.outcomes[k].handle)

-----------------------------------------------------------------------------
\* the signals of a run that belong to a handle
OfHandle(s) == s.handle # <<>>

\* the position, among the normalized handles `norm` of the list, of the
\* handle a signal belongs to (rows and announcements carry the display
\* handle)
Owner(norm, s) ==
    CHOOSE k \in DOMAIN norm :
      s.handle = IF s.sig \in {"add_row", "new_tab"}
                 THEN DisplayHandle(norm[k]) ELSE norm[k]

NonDecreasing(seq) ==
    \A k \in 1..(Len(seq) - 1) : seq[k] <= seq[k + 1]

Increasing(seq) ==
    \A k \in 1..(Len(seq) - 1) : seq[k] < seq[k + 1]

RowsOf(t, display_handle) ==
    SelectSeq(Rows(t), LAMBDA s : s.handle = display_handle)

\* the video id a row was made from
VideoIdOf(row) == row.url[2]

\* C14: channels are processed in input order and one at a time (every
\* signal of a handle precedes every signal of a later handle); the rows of
\* a channel follow the playlist page by page, and the rows of a page
\* follow the order of the metadata response.
C14_ProcessingOrder ==
    \A w \in DOMAIN threads :
      LET t == threads[w]
          sigs == SelectSeq(t.out, OfHandle)
          norm == Normalized(t.channel_handles)
      IN
      Validated(t) =>
        /\ NonDecreasing([k \in DOMAIN sigs |-> Owner(norm, sigs[k])])
        /\ \A k \in DOMAIN norm :
             LET rows == RowsOf(t, DisplayHandle(norm[k])) IN
             Increasing([j \in DOMAIN rows |-> VideoIdOf(rows[j])])
        /\ t.pc = "next_page" =>
             LET items == t.lastcall.offered.items
                 rows == Rows(t)
             IN  /\ t.lastcall.op = "call_videos_api"
                 /\ Len(rows) >= Len(items)
                 /\ \A k \in DOMAIN items :
                      rows[Len(rows) - Len(items) + k] =
                        add_row(t.display_handle, VideoTitle(items[k]),
                                VideoUrl(items[k]))

\* a finished run of two channels: the first enumerated over two pages with
\* more than one row on its last page, the second with rows of its own
C14_Witness ==
    \E w \in DOMAIN threads :
      LET t == threads[w] IN
      /\ t.pc = "finished"
      /\ Len(t.outcomes) = 2
      /\ t.outcomes[1].stage = "done"
      /\ t.outcomes[1].pages = 2
      /\ t.outcomes[1].rows >= 3
      /\ t.outcomes[2].rows >= 2

-----------------------------------------------------------------------------
\* the (title, url) pairs accumulated for a handle, in accumulation order
PairsOf(url_list, handle) ==
    LET rows == SelectSeq(url_list, LAMBDA r : r[1] = handle)
    IN  [k \in DOMAIN rows |-> <<rows[k][2], rows[k][3]>>]

\* the selected handles that have at least one accumulated row
ExportedHandles(win) ==
    { h \in { win.channel_list[k].text : k \in DOMAIN win.channel_list } :
        /\ \E k \in DOMAIN win.channel_list :
             win.channel_list[k].text = h /\ win.channel_list[k].checked
        /\ PairsOf(win.url_list, h) # <<>> }

\* the (title, url) pairs that reading a written file gives back
ReadBack(content) ==
    IF content.format = "csv"
    THEN [k \in DOMAIN content.lines |->
            <<content.lines[k][2], content.lines[k][3]>>]
    ELSE content.lines

\* a press of Save that got as far as the output directory
Exports == disk'.saves # disk.saves /\ disk'.output_dir # <<>>

\* C15: an export writes one file for each selected handle that has rows,
\* none for a selected handle without rows or for an unselected handle, and
\* what it writes for a handle reads back, in the tabular and in the
\* structured format, as the (title, url) pairs accumulated for that handle
\* in accumulation order.
C15_ExportGrouping ==
    [][ Exports =>
          LET writes == disk'.writes IN
          /\ { writes[k].channel_handle : k \in DOMAIN writes }
               = ExportedHandles(window)
          /\ Len(writes) = Cardinality(ExportedHandles(window))
          /\ \A k \in DOMAIN writes :
               /\ writes[k].content.format
                    = (IF window.export_format_combo = "CSV"
                       THEN "csv" ELSE "json")
               /\ ReadBack(writes[k].content)
                    = PairsOf(window.url_list, writes[k].channel_handle)
      ]_vars

\* an export of two channels, one with two rows and one with none, both
\* selected, wrote one file of two rows
C15_Witness ==
    /\ disk.saves = 1
    /\ Len(disk.writes) = 1
    /\ Len(disk.writes[1].content.lines) = 2
    /\ Len(window.channel_list) = 2
    /\ window.channel_list[1].text # window.channel_list[2].text
    /\ \A k \in DOMAIN window.channel_list : window.channel_list[k].checked
    /\ Cardinality(ExportedHandles(window)) = 1

\* an export that left out an unselected channel with rows, in the
\* structured format
C15_WitnessUnselected ==
    /\ disk.saves = 1
    /\ Len(disk.writes) = 1
    /\ disk.writes[1].content.format = "json"
    /\ \E k \in DOMAIN window.channel_list :
         /\ ~window.channel_list[k].checked
         /\ PairsOf(window.url_list, window.channel_list[k].text) # <<>>
         /\ window.channel_list[k].text # disk.writes[1].channel_handle

-----------------------------------------------------------------------------
\* C16: in one export, the files of two distinct handles are written to two
\* distinct paths.
C16_DistinctFilePaths ==
    \A j, k \in DOMAIN disk.writes :
      disk.writes[j].channel_handle # disk.writes[k].channel_handle
        => disk.writes[j].file_path # disk.writes[k].file_path

-----------------------------------------------------------------------------
\* the last write of an export that went to a path and succeeded
LastWriteTo(writes, path) ==
    CHOOSE k \in DOMAIN writes :
      /\ writes[k].file_path = path /\ writes[k].ok
      /\ \A j \in DOMAIN writes :
           writes[j].file_path = path /\ writes[j].ok => j <= k

\* C17: an export attempts the file of every selected handle that has rows,
\* whichever of the writes fail; every failed write is reported with its
\* path, and every write that succeeds leaves its file on the disk.
C17_WriteFailureIsolated ==
    [][ Exports =>
          LET writes == disk'.writes
              failed == SelectSeq(writes, LAMBDA wr : ~wr.ok)
              errors == SelectSeq(disk'.popups,
                                  LAMBDA p : p.title = "Error")
          IN
          /\ Len(writes) = Cardinality(ExportedHandles(window))
          /\ { writes[k].channel_handle : k \in DOMAIN writes }
               = ExportedHandles(window)
          /\ [k \in DOMAIN failed |-> failed[k].file_path]
               = [k \in DOMAIN errors |-> errors[k].path]
          /\ \A k \in DOMAIN writes :
               writes[k].ok =>
                 /\ writes[k].file_path \in DOMAIN disk'.files
                 /\ disk'.files[writes[k].file_path]
                      = writes[LastWriteTo(writes, writes[k].file_path)].content
      ]_vars

\* an export of two channels whose first write failed and whose second
\* write succeeded
C17_Witness ==
    /\ Len(disk.writes) = 2
    /\ ~disk.writes[1].ok
    /\ disk.writes[2].ok
    /\ disk.writes[1].file_path # disk.writes[2].file_path
    /\ DOMAIN disk.files = { disk.writes[2].file_path }

-----------------------------------------------------------------------------
\* C18: a resolve-handle call or a channel-details call that the remote
\* fails transiently on the first attempt is attempted again.
C18_ResolverCallsRetried ==
    \A w \in DOMAIN threads :
      LET t == threads[w] IN
      t.lastcall.op \in {"get_channel_id", "call_channels_api"}
      /\ t.lastcall.script[1] = "transient" =>
        t.lastcall.attempts >= 2

-----------------------------------------------------------------------------
\* each handle a validated run has left is left once, either done (the
\* last page had no cursor, no failure report) or failed (one failure
\* report), and a finished run has left every normalized handle of its list
C19_ExclusiveOutcomes ==
    \A w \in DOMAIN threads :
      LET t == threads[w] IN
      Validated(t) =>
        /\ IsPrefix([k \in DOMAIN t.outcomes |-> t.outcomes[k].handle],
                    Normalized(t.channel_handles))
        /\ t.pc = "finished" =>
             Len(t.outcomes) = Len(Normalized(t.channel_handles))
        /\ \A k \in DOMAIN t.outcomes :
             Count(Handles(Errors(t)), t.outcomes[k].handle)
               = IF t.outcomes[k].stage = "done" THEN 0 ELSE 1
        /\ ( /\ t.pc = "loop"
             /\ t.outcomes # <<>>
             /\ t.outcomes[Len(t.outcomes)].stage = "done" )
           => t.playlist_response.nextPageToken = None

Terminated == \A w \in DOMAIN threads : threads[w].pc = "finished"

\* C19: every run terminates, and each distinct non-blank normalized handle
\* of a run that passed input validation ends in exactly one terminal
\* state: done, with no failure report, or failed, with exactly one.
C19_TerminatesWithExclusiveOutcomes ==
    /\ []C19_ExclusiveOutcomes
    /\ <>Terminated

\* a finished run left one channel done and the other failed while its
\* rows were being fetched
C19_Witness ==
    \E w \in DOMAIN threads :
      LET t == threads[w] IN
      /\ t.pc = "finished"
      /\ Len(t.outcomes) = 2
      /\ t.outcomes[1].stage = "done"
      /\ t.outcomes[1].pages = 2
      /\ t.outcomes[2].stage = "call_videos_api"
      /\ Len(Errors(t)) = 1

-----------------------------------------------------------------------------
\* the requests a step of a thread has sent
NewCalls(w) ==
    SubSeq(threads'[w].calls, Len(threads[w].calls) + 1,
           Len(threads'[w].calls))

\* C20: the first page request of a channel carries no cursor, every later
\* page request carries the cursor of the page response before it, whatever
\* its value, and after a response without cursor no page is requested.
C20_CursorThreading ==
    [][ \A w \in DOMAIN threads :
          LET t == threads[w] IN
          /\ t.pc = "first_page" =>
               /\ NewCalls(w) # <<>>
               /\ \A k \in DOMAIN NewCalls(w) :
                    /\ NewCalls(w)[k].op = "playlistItems.list"
                    /\ NewCalls(w)[k].pageToken = None
          /\ t.pc = "next_page" =>
               IF t.playlist_response.nextPageToken = None
               THEN NewCalls(w) = <<>>
               ELSE /\ NewCalls(w) # <<>>
                    /\ \A k \in DOMAIN NewCalls(w) :
                         /\ NewCalls(w)[k].op = "playlistItems.list"
                         /\ NewCalls(w)[k].pageToken
                              = t.playlist_response.nextPageToken
      ]_vars

-----------------------------------------------------------------------------
\* C21: every row a run emits for a display handle comes after an
\* announcement of that display handle by the same run, and every channel
\* whose first playlist page was fetched is announced, whether or not it
\* yields a row.
C21_AnnouncedBeforeRows ==
    \A w \in DOMAIN threads :
      LET t == threads[w] IN
      /\ \A k \in DOMAIN t.out :
           IsRow(t.out[k]) =>
             \E j \in 1..(k - 1) : t.out[j] = new_tab(t.out[k].handle)
      /\ \A k \in DOMAIN t.outcomes :
           FirstPageFetched(t.outcomes[k]) =>
             InSeq(new_tab(DisplayHandle(t.outcomes[k].handle)), t.out)
      /\ t.pc \in {"call_videos_api", "next_page"} =>
           InSeq(new_tab(DisplayHandle(t.channel_handle)), t.out)

\* a finished run whose first channel was enumerated to the end without a
\* row and whose second channel yielded rows
C21_Witness ==
    \E w \in DOMAIN threads :
      LET t == threads[w] IN
      /\ t.pc = "finished"
      /\ Len(t.outcomes) = 2
      /\ t.outcomes[1].stage = "done"
      /\ t.outcomes[1].rows = 0
      /\ t.outcomes[2].rows >= 1
      /\ Len(Tabs(t)) = 2

-----------------------------------------------------------------------------
\* the rows a step of a thread has emitted
NewRows(w) ==
    SubSeq(Rows(threads'[w]), Len(Rows(threads[w])) + 1,
           Len(Rows(threads'[w])))

\* C22: for each playlist page there is one metadata request, for all the
\* ids of the page, and the rows emitted for the page are the items of its
\* response, one row per item in response order; an id the response leaves
\* out yields no row, no failure report and does not end the channel.
C22_RowsAreResponseItems ==
    [][ \A w \in DOMAIN threads :
          LET t == threads[w]
              t2 == threads'[w]
              response == t2.lastcall.offered
          IN
          ( /\ t.pc = "call_videos_api"
            /\ t2.lastcall.op = "call_videos_api"
            /\ t2.lastcall.result = "return"
            /\ response.hasItems )
          => /\ NewCalls(w) =
                  <<Request("videos.list", t.channel_handle, None,
                            t.playlist_response.items)>>
             /\ NewRows(w) =
                  [k \in DOMAIN response.items |->
                     add_row(DisplayHandle(t.channel_handle),
                             VideoTitle(response.items[k]),
                             VideoUrl(response.items[k]))]
             /\ Errors(t2) = Errors(t)
             /\ t2.pc = "next_page"
             /\ t2.outcomes = t.outcomes
      ]_vars

\* the second page of a channel has been fetched after the metadata
\* response of the first page left a video out, and a metadata response
\* listed the videos of a page in another order than asked
C22_Witness ==
    \E w \in DOMAIN threads :
      LET t == threads[w] IN
      /\ t.pc = "next_page"
      /\ t.pages = 2
      /\ Len(t.playlist_response.items) = 2
      /\ t.lastcall.offered.items = Reverse(t.playlist_response.items)
      /\ t.processed_videos < t.seen

-----------------------------------------------------------------------------
RECURSIVE SumTotals(_)
SumTotals(outcomes) ==
    IF outcomes = <<>> THEN 0
    ELSE Head(outcomes).totalResults + SumTotals(Tail(outcomes))

\* the estimate is the sum, over the channels whose first page was fetched,
\* of the totalResults of that page
C23_TotalIsSumOfFirstPages ==
    \A w \in DOMAIN threads :
      LET t == threads[w] IN
      /\ \A k \in DOMAIN t.outcomes :
           ~FirstPageFetched(t.outcomes[k]) => t.outcomes[k].totalResults = 0
      /\ t.total_videos =
           SumTotals(t.outcomes)
           + (IF t.pc \in {"call_videos_api", "next_page"}
              THEN t.first_total ELSE 0)

\* C23: the total estimate of a run changes only in the step that fetches
\* the first playlist page of a channel, by the totalResults of that page,
\* once per channel; later pages and channels that fail before their first
\* page leave it as it is.
C23_TotalEstimateFrame ==
    /\ []C23_TotalIsSumOfFirstPages
    /\ [][ \A w \in DOMAIN threads :
             LET t == threads[w]
                 t2 == threads'[w]
                 fetched == /\ t.pc = "first_page"
                            /\ t2.lastcall.op = "call_playlist_items_api"
                            /\ t2.lastcall.result = "return"
             IN  t2.total_videos =
                   t.total_videos
                   + (IF fetched THEN t2.lastcall.offered.totalResults
                      ELSE 0)
         ]_vars

\* a finished run: the first channel failed at the fetch of its first page,
\* the second was enumerated over two pages and reported a total of 1
C23_Witness ==
    \E w \in DOMAIN threads :
      LET t == threads[w] IN
      /\ t.pc = "finished"
      /\ Len(t.outcomes) = 2
      /\ t.outcomes[1].stage = "first_page"
      /\ t.outcomes[1].pages = 0
      /\ t.outcomes[2].stage = "done"
      /\ t.outcomes[2].pages = 2
      /\ t.outcomes[2].totalResults = 1
      /\ t.total_videos = 1

-----------------------------------------------------------------------------
PaginatingStages == { "first_page", "call_videos_api", "next_page" }

\* C24: the rows a run has emitted and the rows the window has accumulated
\* only grow at their end; the step in which a channel fails at a page
\* fetch or a metadata fetch emits no row and one failure report naming
\* the channel, and leaves the run at the next handle; the delivery of that
\* report leaves every accumulated row, in the list and in the tables, as
\* it is.
C24_RowsAppendOnly ==
    [][ /\ IsPrefix(window.url_list, window'.url_list)
        /\ \A k \in DOMAIN window.tab_widget :
             /\ k \in DOMAIN window'.tab_widget
             /\ window'.tab_widget[k].label = window.tab_widget[k].label
             /\ IsPrefix(window.tab_widget[k].rows,
                         window'.tab_widget[k].rows)
        /\ ( /\ events # <<>>
             /\ events' = Tail(events)
             /\ Head(events).s.sig = "error_occurred" )
           => /\ window'.url_list = window.url_list
              /\ window'.tab_widget = window.tab_widget
        /\ \A w \in DOMAIN threads :
             LET t == threads[w]
                 t2 == threads'[w]
             IN
             /\ IsPrefix(Rows(t), Rows(t2))
             /\ ( /\ t.pc \in PaginatingStages
                  /\ Len(t2.outcomes) = Len(t.outcomes) + 1
                  /\ t2.outcomes[Len(t2.outcomes)].stage # "done" )
                => /\ Rows(t2) = Rows(t)
                   /\ Errors(t2) = Append(Errors(t),
                                          t2.out[Len(t2.out)])
                   /\ t2.out[Len(t2.out)].handle = t.channel_handle
                   /\ t2.pc = "loop"
                   /\ t2.i = t.i + 1
      ]_vars

\* the first channel failed at the fetch of its second page after a row,
\* the popup of its report is open, and the rows of both channels are in
\* the window's list
C24_Witness ==
    \E w \in DOMAIN threads :
      LET t == threads[w] IN
      /\ Len(t.outcomes) >= 1
      /\ t.outcomes[1].stage = "next_page"
      /\ t.outcomes[1].rows = 1
      /\ window.dialogs = 1
      /\ Len(window.url_list) = 2
      /\ window.url_list[1][1] = DisplayHandle(t.outcomes[1].handle)
      /\ window.url_list[2][1] # window.url_list[1][1]

-----------------------------------------------------------------------------
\* C25: an export shows its success message only if at least one of its
\* per-channel writes succeeded.
C25_SuccessOnlyIfSaved ==
    (\E k \in DOMAIN disk.popups : disk.popups[k].title = "Success")
    => \E k \in DOMAIN disk.writes : disk.writes[k].ok

-----------------------------------------------------------------------------
\* the rows a run has emitted, as add_table_row stores them
StoredRows(t) ==
    [k \in DOMAIN Rows(t) |->
       <<Rows(t)[k].handle, Rows(t)[k].title, Rows(t)[k].url>>]

\* C26: once a run has been started, the accumulated rows are rows that
\* the most recently started run emitted, in its order, and the Save
\* button is enabled only if that run has reported Complete.
C26_NoLeakBetweenRuns ==
    window.scraper_thread # 0 =>
      LET t == threads[window.scraper_thread] IN
      /\ IsPrefix(window.url_list, StoredRows(t))
      /\ window.save_button => \E k \in DOMAIN t.out : IsComplete(t.out[k])

====
